---- MODULE Spec2Model ----
(***************************************************************************)
(* Rolling re-optimization of a prefabricated-module schedule.             *)
(*                                                                         *)
(* The persisted state is the project's database: the version records,     *)
(* the solution rows of each version and the delay records.  One action    *)
(* models each handler: recording a delay, the Calculate button in its     *)
(* initial and its re-optimization branch, and the deletion of a version.  *)
(* The MILP solver is a black box that returns any assignment satisfying   *)
(* the constraints build_model states, or reports infeasibility.           *)
(***************************************************************************)
EXTENDS Integers, Sequences, FiniteSets, TLC

(* ------------------------------ bounds --------------------------------- *)

\* largest delay magnitude a user records
MaxHours == 1
\* largest start postponement a user records where postponements are followed
\* over several cycles
MaxPostponeHours == 2
\* a project followed over several cycles: delay records ever created and
\* presses of Calculate
MaxDelays == 2
MaxCycles == 3
\* a project followed over its first re-optimization: the same two bounds
FirstCycleDelays == 1
FirstCyclePresses == 2
\* versions the user deletes
MaxDeletes == 1
\* time indices at which the solver starts the production of one module
MaxProductions == 2
\* delay_hours is a REAL: the model counts it in parts of an hour
HourParts == 2
\* hours of a delay handed to apply_delays called on its own
MaxApplyHours == 2
\* delays handed to one apply_delays call
MaxApplied == 2
\* calls of identify_all_states on one TaskStateIdentifier
MaxCalls == 2
\* time horizons of the three kinds of project
HorizonShort == 5
HorizonLong == 8
HorizonTwo == 6

(* ------------------------- project configuration ----------------------- *)

\* settings: machine count, site storage, factory storage
M_machine == 1
S_site == 1
S_fac == 1

\* the raw schedule of a project with one module, every duration one hour
ShortProject ==
    [N |-> 1, T |-> HorizonShort, D |-> <<1>>, L |-> <<1>>, d |-> <<1>>,
     E |-> {}, C_install |-> 1]

\* the raw schedule of a project with one module, every duration two hours
LongProject ==
    [N |-> 1, T |-> HorizonLong, D |-> <<2>>, L |-> <<2>>, d |-> <<2>>,
     E |-> {}, C_install |-> 1]

\* raw schedules with two modules, the second two hours in production and
\* every other duration one hour: one crew and no precedence edge, or two
\* crews and the precedence edge (1, 2)
TwoModuleProjects ==
    {[N |-> 2, T |-> HorizonTwo, D |-> <<1, 2>>, L |-> <<1, 1>>,
      d |-> <<1, 1>>, E |-> {}, C_install |-> 1],
     [N |-> 2, T |-> HorizonTwo, D |-> <<1, 2>>, L |-> <<1, 1>>,
      d |-> <<1, 1>>, E |-> {<<1, 2>>}, C_install |-> 2]}

\* raw schedules whose first optimization is looked at on its own: two
\* modules with two crews and every duration one hour, which can wait on site
\* together, and one module whose production takes no time
SolveProjects ==
    {[N |-> 2, T |-> HorizonTwo, D |-> <<1, 1>>, L |-> <<1, 1>>,
      d |-> <<1, 1>>, E |-> {}, C_install |-> 2],
     [N |-> 1, T |-> HorizonShort, D |-> <<0>>, L |-> <<1>>, d |-> <<1>>,
      E |-> {}, C_install |-> 1]}

None == 0
NoDict == << >>

Max(a, b) == IF a >= b THEN a ELSE b

Phases == {"FABRICATION", "TRANSPORT", "INSTALLATION"}
DelayTypes == {"DURATION_EXTENSION", "START_POSTPONEMENT"}

VARIABLES
    project,      \* raw schedule, horizon and crew count: N, T, D, L, d, E,
                  \* C_install
    budget,       \* bounds of the run: max_cycles, max_delays, max_deletes,
                  \* max_hours, and the delay types the user records
    versions,     \* optimization_versions table: set of records
    nextVersionId,\* AUTOINCREMENT counter of version_id
    solutions,    \* solution_schedule + summary tables: version_id -> record
    delays,       \* delay_updates table: set of records
    nextDelayId,  \* AUTOINCREMENT counter of delay_id
    applied,      \* history: delay_id -> number of cycles that applied it
    cycles,       \* presses of Calculate so far
    deletes,      \* presses of Delete Version so far
    last          \* what the last handler computed (observations)

vars == <<project, budget, versions, nextVersionId, solutions, delays,
          nextDelayId, applied, cycles, deletes, last>>

\* N = len(df), T = estimate_time_horizon(...)
N == project.N
T == project.T
Modules == 1..N
Times == 1..T
\* C_install = int(settings.get("C_install", ...))
C_install == project.C_install

(* --------------------------- the MILP model ---------------------------- *)

\* PrefabScheduler as constructed for an initial optimization
InitialModel ==
    [D |-> project.D, L |-> project.L, d |-> project.d, E |-> project.E,
     fixed_installation_starts |-> NoDict,
     fixed_production_starts |-> NoDict,
     fixed_arrival_times |-> NoDict,
     fixed_durations |-> NoDict,
     reoptimize_from_time |-> None,
     earliest_production_starts |-> NoDict,
     earliest_transport_starts |-> NoDict,
     earliest_installation_starts |-> NoDict]

\* (2a)-(2c): a fixed entry pins the start when it lies in the horizon
FixedOk(fixed, i, v) ==
    (i \in DOMAIN fixed /\ 1 <= fixed[i] /\ fixed[i] <= T) => v = fixed[i]

\* (2e): unfixed variables may not take a time before reoptimize_from_time
GuardOk(m, fixed, i, v) ==
    (m.reoptimize_from_time > 1 /\ i \notin DOMAIN fixed)
        => v >= m.reoptimize_from_time

\* (2f): lower bound on production / installation start
EarliestOk(earliest, fixed, i, v) ==
    (i \in DOMAIN earliest /\ 1 <= earliest[i] /\ earliest[i] <= T
       /\ i \notin DOMAIN fixed) => v >= earliest[i]

\* (2f): lower bound on transport start, stated on the arrival time
EarliestArrivalOk(m, i, v) ==
    (i \in DOMAIN m.earliest_transport_starts
       /\ 1 <= m.earliest_transport_starts[i]
       /\ m.earliest_transport_starts[i] <= T
       /\ i \notin DOMAIN m.fixed_arrival_times
       /\ 1 <= m.earliest_transport_starts[i] + m.L[i]
       /\ m.earliest_transport_starts[i] + m.L[i] <= T)
        => v >= m.earliest_transport_starts[i] + m.L[i]

\* (2b): a fixed production start sets q[i, fixed] = 1; no constraint makes
\* the q[i, t] of a module sum to one
FixedProductionOk(fixed, i, qs) ==
    (i \in DOMAIN fixed /\ 1 <= fixed[i] /\ fixed[i] <= T) => fixed[i] \in qs

\* the entries of the three fixed-start dicts of a scheduler
FixedEntries(m) ==
    {[family |-> "installation", i |-> i,
      value |-> m.fixed_installation_starts[i]] :
        i \in DOMAIN m.fixed_installation_starts}
    \cup {[family |-> "production", i |-> i,
           value |-> m.fixed_production_starts[i]] :
             i \in DOMAIN m.fixed_production_starts}
    \cup {[family |-> "arrival", i |-> i,
           value |-> m.fixed_arrival_times[i]] :
             i \in DOMAIN m.fixed_arrival_times}

\* a variant of the validation that looks at installation starts only
WarningsInstallationOnly(m) ==
    {e \in FixedEntries(m) :
        /\ e.family = "installation"
        /\ 1 <= e.i /\ e.i <= N /\ 1 <= e.value /\ e.value <= T
        /\ m.reoptimize_from_time # None
        /\ e.value > m.reoptimize_from_time}

\* (2a)-(2c): the [WARNING] lines build_model prints, one for each fixed
\* entry inside the horizon that lies after reoptimize_from_time
Warnings(m) ==
    {e \in FixedEntries(m) :
        /\ 1 <= e.i /\ e.i <= N /\ 1 <= e.value /\ e.value <= T
        /\ m.reoptimize_from_time # None
        /\ e.value > m.reoptimize_from_time}

\* the sets of time indices t with q[i, t] = 1
ProductionSets == {S \in SUBSET Times : Cardinality(S) <= MaxProductions}

\* get_solution_dict: the first t with q[i, t] = 1
FirstOf(S) == CHOOSE t \in S : \A u \in S : t <= u

\* (10): arrival no later than installation start
ArriveBeforeInstall(c) == c.p <= c.x

\* a variant of (13) that forgets the transport duration
ProdToArriveNoTransport(m, i, c) ==
    /\ c.p - m.D[i] >= 1
    /\ \E tau \in c.qs : tau <= c.p - m.D[i]

\* (13): production -> arrival timing
ProdToArrive(m, i, c) ==
    /\ c.p - m.D[i] - m.L[i] >= 1
    /\ \E tau \in c.qs : tau <= c.p - m.D[i] - m.L[i]

\* the values of module i's variables that satisfy its own constraints:
\* x and p the one index (2) and (9) leave, qs the indices with q[i, t] = 1
ModuleCands(m, i) ==
    LET xs == {x \in Times :
                  /\ FixedOk(m.fixed_installation_starts, i, x)
                  /\ GuardOk(m, m.fixed_installation_starts, i, x)
                  /\ EarliestOk(m.earliest_installation_starts,
                                m.fixed_installation_starts, i, x)}
        ps == {p \in Times :
                  /\ FixedOk(m.fixed_arrival_times, i, p)
                  /\ GuardOk(m, m.fixed_arrival_times, i, p)
                  /\ EarliestArrivalOk(m, i, p)}
        taus == {tau \in Times :
                  /\ GuardOk(m, m.fixed_production_starts, i, tau)
                  /\ EarliestOk(m.earliest_production_starts,
                                m.fixed_production_starts, i, tau)}
        qss == {S \in ProductionSets :
                  /\ S \subseteq taus
                  /\ FixedProductionOk(m.fixed_production_starts, i, S)}
    IN {c \in [x : xs, p : ps, qs : qss] :
           /\ ArriveBeforeInstall(c)
           /\ ProdToArrive(m, i, c)}

RECURSIVE Assignments(_, _)
Assignments(m, i) ==
    IF i = 0 THEN {<< >>}
    ELSE {Append(a, c) : a \in Assignments(m, i - 1), c \in ModuleCands(m, i)}

\* a variant of (4) that orders the starts and forgets the duration
PrecedenceOkStartsOnly(m, a) ==
    \A e \in m.E : a[e[1]].x <= a[e[2]].x

\* (4): precedence between real activities
PrecedenceOk(m, a) ==
    \A e \in m.E : a[e[1]].x + m.d[e[1]] <= a[e[2]].x

\* (1): the time index the dummy start is fixed at
DummyStart(m) ==
    IF m.reoptimize_from_time # None THEN Max(1, m.reoptimize_from_time)
    ELSE 1

\* _find_roots_and_leaves
Roots(edges) == {i \in Modules : ~ \E e \in edges : e[2] = i}

Leaves(edges) == {i \in Modules : ~ \E e \in edges : e[1] = i}

\* (5): roots after dummy start, stated as 1 <= start_i
RootsOk(m, a) ==
    \A i \in Roots(m.E) : 1 <= a[i].x

\* (6): leaves before dummy end
LeavesOk(m, a, end) ==
    \A i \in Leaves(m.E) : a[i].x + m.d[i] <= end

\* (7): y[i,t] = sum of x[i,tau] over the window max(1, t-d+1)..t
InInstall(m, a, i, t) ==
    IF Max(1, t - m.d[i] + 1) <= a[i].x /\ a[i].x <= t THEN 1 ELSE 0

RECURSIVE SumOver(_, _)
SumOver(S, f) ==
    IF S = {} THEN 0
    ELSE LET i == CHOOSE j \in S : TRUE IN f[i] + SumOver(S \ {i}, f)

\* a variant of (8) that bounds each module alone and forgets the sum
CrewOkPerModule(m, a) ==
    \A t \in Times : \A i \in Modules : InInstall(m, a, i, t) <= C_install

\* (8): installation crew capacity
CrewOk(m, a) ==
    \A t \in Times :
        SumOver(Modules, [i \in Modules |-> InInstall(m, a, i, t)]) <= C_install

\* (14): factory machine capacity
InProduction(m, a, i, t) ==
    Cardinality({tau \in a[i].qs : Max(1, t - m.D[i] + 1) <= tau /\ tau <= t})

MachineOk(m, a) ==
    \A t \in Times :
        SumOver(Modules, [i \in Modules |-> InProduction(m, a, i, t)]) <= M_machine

\* (11): site inventory balance
RECURSIVE SiteInv(_, _, _)
SiteInv(a, i, t) ==
    LET arr == IF a[i].p = t THEN 1 ELSE 0
        sta == IF a[i].x = t THEN 1 ELSE 0
    IN IF t = 1 THEN arr - sta ELSE SiteInv(a, i, t - 1) + arr - sta

\* a variant of (12) that bounds each module alone and forgets the sum
SiteOkPerModule(a) ==
    \A t \in Times : \A i \in Modules :
        SiteInv(a, i, t) >= 0 /\ SiteInv(a, i, t) <= S_site

\* (12) with I >= 0: site warehouse capacity
SiteOk(a) ==
    \A t \in Times :
        /\ \A i \in Modules : SiteInv(a, i, t) >= 0
        /\ SumOver(Modules, [i \in Modules |-> SiteInv(a, i, t)]) <= S_site

\* (16), (17): factory inventory
RECURSIVE FacInv(_, _, _)
FacInv(m, a, s) ==
    IF s = 1 THEN 0
    ELSE LET finished_here ==
                 Cardinality({i \in Modules :
                     s - m.D[i] >= 1 /\ (s - m.D[i]) \in a[i].qs})
             shipped_here ==
                 Cardinality({i \in Modules :
                     s + m.L[i] <= T /\ a[i].p = s + m.L[i]})
         IN FacInv(m, a, s - 1) + finished_here - shipped_here

\* (18) with F >= 0: factory buffer capacity
FactoryOk(m, a) ==
    \A s \in Times : FacInv(m, a, s) >= 0 /\ FacInv(m, a, s) <= S_fac

\* every assignment build_model's constraints admit
Feasible(m) ==
    LET As == {a \in Assignments(m, N) :
                  /\ PrecedenceOk(m, a)
                  /\ RootsOk(m, a)
                  /\ MachineOk(m, a)
                  /\ CrewOk(m, a)
                  /\ SiteOk(a)
                  /\ FactoryOk(m, a)}
    IN UNION {{[a |-> a, end |-> end] :
                  end \in {e \in Times : LeavesOk(m, a, e)}} : a \in As}

\* get_solution_dict: per module the first index whose variable is set
get_solution_dict(a) ==
    [i \in DOMAIN a |->
        [x |-> a[i].x, p |-> a[i].p, q |-> FirstOf(a[i].qs)]]

\* solve() and get_solution_dict(): the starts read from an assignment with
\* an accepted status, or a failure status
solve(m) ==
    LET feasible == Feasible(m)
    IN IF feasible = {}
       THEN {[status |-> "INFEASIBLE", a |-> << >>, end |-> None]}
       ELSE {[status |-> "OPTIMAL", a |-> get_solution_dict(s.a),
              end |-> s.end] : s \in feasible}

AcceptedStatus == {"OPTIMAL", "TIME_LIMIT", "SUBOPTIMAL"}

\* save_results_to_db: the solution rows of one version
save_results_to_db(m, s, earliest) ==
    [i \in Modules |->
        [Production_Start |-> s.a[i].q,
         Production_Duration |-> m.D[i],
         Transport_Start |-> s.a[i].p - m.L[i],
         Transport_Duration |-> m.L[i],
         Arrival_Time |-> s.a[i].p,
         Installation_Start |-> s.a[i].x,
         Installation_Duration |-> m.d[i],
         Installation_Finish |-> s.a[i].x + m.d[i] - 1,
         Earliest_Production_Start |->
             IF earliest = NoDict THEN None
             ELSE earliest[i].Earliest_Production_Start,
         Earliest_Transport_Start |->
             IF earliest = NoDict THEN None
             ELSE earliest[i].Earliest_Transport_Start,
         Earliest_Installation_Start |->
             IF earliest = NoDict THEN None
             ELSE earliest[i].Earliest_Installation_Start]]

(* ------------------------- the working calendar ------------------------ *)

\* the datetime of slot idx, in half-hour ticks: slots are one hour apart
SlotTime(idx) == 2 * idx

\* the datetimes get_current_datetime may return for a calendar of n slots
NowChoices(n) == 1..(2 * n + 1)

\* main: max_idx, the number of slots of the calendar built for a cycle
MaxIdx(df) ==
    LET cols == {df[i].Installation_Start : i \in Modules}
                \cup {df[i].Installation_Finish : i \in Modules}
                \cup {df[i].Arrival_Time : i \in Modules}
                \cup {df[i].Production_Start : i \in Modules}
                \cup {T}
    IN CHOOSE v \in cols : \A w \in cols : w <= v

\* main: the time index of the current datetime
CurrentTime(now, n) ==
    IF \E idx \in 1..n : SlotTime(idx) >= now
    THEN CHOOSE idx \in 1..n :
             /\ SlotTime(idx) >= now
             /\ \A j \in 1..n : SlotTime(j) >= now => idx <= j
    ELSE IF n >= 1 /\ SlotTime(1) > now THEN 1 ELSE n

\* a variant of _index_to_datetime that forgets the placeholder at slots[0]
IndexToDatetimeNoPlaceholder(idx, n) ==
    IF 2 <= idx /\ idx <= n THEN SlotTime(idx - 1) ELSE None

\* _index_to_datetime
IndexToDatetime(idx, n) == IF 1 <= idx /\ idx <= n THEN SlotTime(idx) ELSE None

(* ------------------------- TaskStateIdentifier ------------------------- *)

\* a variant of __init__ that takes the nearest slot for an index outside the
\* calendar
ResolveDatetimeNearestSlot(current_time, current_datetime, n) ==
    IF current_datetime # None THEN current_datetime
    ELSE IF n = 0 THEN None
    ELSE SlotTime(IF current_time < 1 THEN 1
                  ELSE IF current_time > n THEN n ELSE current_time)

\* __init__: the datetime supplied, else the slot of current_time, else None
ResolveDatetime(current_time, current_datetime, n) ==
    IF current_datetime # None THEN current_datetime
    ELSE IF current_time > 0 THEN IndexToDatetime(current_time, n) ELSE None

RECURSIVE GCD(_, _)
GCD(a, b) == IF b = 0 THEN a ELSE GCD(b, a % b)

\* a progress value, the fraction num / den in lowest terms
Fraction(num, den) ==
    [num |-> num \div GCD(num, den), den |-> den \div GCD(num, den)]

\* progress of an IN_PROGRESS phase: min(1.0, max(0.0, elapsed / total))
Progress(start_dt, finish_dt, now) ==
    IF finish_dt # None
    THEN LET total_duration == finish_dt - start_dt
             elapsed == now - start_dt
         IN IF total_duration > 0
            THEN IF elapsed >= total_duration THEN Fraction(1, 1)
                 ELSE IF elapsed <= 0 THEN Fraction(0, 1)
                 ELSE Fraction(elapsed, total_duration)
            ELSE Fraction(0, 1)
    ELSE Fraction(1, 2)

\* a variant of _identify_phase_state that counts a phase finishing at the
\* reference time as COMPLETED
IdentifyPhaseStateFinishIncluded(start_idx, finish_idx, now, n) ==
    LET start_dt == IndexToDatetime(start_idx, n)
        finish_dt == IF finish_idx # 0 THEN IndexToDatetime(finish_idx, n) ELSE None
    IN IF now = None
       THEN [status |-> "NOT_STARTED", start_time |-> start_idx,
             finish_time |-> finish_idx, progress |-> Fraction(0, 1),
             actual_start_time |-> None]
       ELSE IF finish_dt # None /\ finish_dt <= now
       THEN [status |-> "COMPLETED", start_time |-> start_idx,
             finish_time |-> finish_idx, progress |-> Fraction(1, 1),
             actual_start_time |-> None]
       ELSE IF start_dt # None /\ start_dt <= now
       THEN [status |-> "IN_PROGRESS", start_time |-> start_idx,
             finish_time |-> finish_idx,
             progress |-> Progress(start_dt, finish_dt, now),
             actual_start_time |-> start_idx]
       ELSE [status |-> "NOT_STARTED", start_time |-> start_idx,
             finish_time |-> finish_idx, progress |-> Fraction(0, 1),
             actual_start_time |-> None]

\* a variant of _identify_phase_state that finds a phase IN_PROGRESS only at
\* the datetime of its start
IdentifyPhaseStateStartAtReference(start_idx, finish_idx, now, n) ==
    LET start_dt == IndexToDatetime(start_idx, n)
        finish_dt == IF finish_idx # 0 THEN IndexToDatetime(finish_idx, n) ELSE None
    IN IF now = None
       THEN [status |-> "NOT_STARTED", start_time |-> start_idx,
             finish_time |-> finish_idx, progress |-> Fraction(0, 1),
             actual_start_time |-> None]
       ELSE IF finish_dt # None /\ finish_dt < now
       THEN [status |-> "COMPLETED", start_time |-> start_idx,
             finish_time |-> finish_idx, progress |-> Fraction(1, 1),
             actual_start_time |-> None]
       ELSE IF start_dt # None /\ start_dt = now
       THEN [status |-> "IN_PROGRESS", start_time |-> start_idx,
             finish_time |-> finish_idx,
             progress |-> Progress(start_dt, finish_dt, now),
             actual_start_time |-> start_idx]
       ELSE [status |-> "NOT_STARTED", start_time |-> start_idx,
             finish_time |-> finish_idx, progress |-> Fraction(0, 1),
             actual_start_time |-> None]

\* _identify_phase_state
IdentifyPhaseState(start_idx, finish_idx, now, n) ==
    LET start_dt == IndexToDatetime(start_idx, n)
        finish_dt == IF finish_idx # 0 THEN IndexToDatetime(finish_idx, n) ELSE None
    IN IF now = None
       THEN [status |-> "NOT_STARTED", start_time |-> start_idx,
             finish_time |-> finish_idx, progress |-> Fraction(0, 1),
             actual_start_time |-> None]
       ELSE IF finish_dt # None /\ finish_dt < now
       THEN [status |-> "COMPLETED", start_time |-> start_idx,
             finish_time |-> finish_idx, progress |-> Fraction(1, 1),
             actual_start_time |-> None]
       ELSE IF start_dt # None /\ start_dt <= now
       THEN [status |-> "IN_PROGRESS", start_time |-> start_idx,
             finish_time |-> finish_idx,
             progress |-> Progress(start_dt, finish_dt, now),
             actual_start_time |-> start_idx]
       ELSE [status |-> "NOT_STARTED", start_time |-> start_idx,
             finish_time |-> finish_idx, progress |-> Fraction(0, 1),
             actual_start_time |-> None]

\* identify_all_states
IdentifyAllStates(df, now, n) ==
    [i \in Modules |->
        [FABRICATION |->
            IdentifyPhaseState(
                df[i].Production_Start,
                IF df[i].Production_Start # 0
                THEN df[i].Production_Start + df[i].Production_Duration - 1
                ELSE None,
                now, n),
         TRANSPORT |->
            IdentifyPhaseState(df[i].Transport_Start, df[i].Arrival_Time, now, n),
         INSTALLATION |->
            IdentifyPhaseState(
                df[i].Installation_Start,
                IF df[i].Installation_Start # 0
                THEN df[i].Installation_Start + df[i].Installation_Duration - 1
                ELSE None,
                now, n)]]

(* ----------------------------- DelayApplier ---------------------------- *)

\* int(delay.delay_hours): the fraction of an hour is cut off
IntHours(delay_hours) == delay_hours \div HourParts

\* the TaskState of the delay's phase, looked up for the log line: the set
\* of the one state found, empty where .get(phase) finds none
StateOfPhase(module_states, phase) ==
    IF phase \in DOMAIN module_states THEN {module_states[phase]} ELSE {}

\* a variant of _apply_duration_extension that leaves a COMPLETED phase alone
ApplyDurationExtensionUnlessCompleted(row, delay, task_state) ==
    IF \E state \in task_state : state.status = "COMPLETED" THEN row
    ELSE IF delay.phase = "FABRICATION"
    THEN [row EXCEPT !.Production_Duration = @ + delay.delay_hours \div HourParts]
    ELSE IF delay.phase = "TRANSPORT"
    THEN [row EXCEPT !.Transport_Duration = @ + delay.delay_hours \div HourParts]
    ELSE [row EXCEPT !.Installation_Duration = @ + delay.delay_hours \div HourParts]

\* _apply_duration_extension: current_duration + delay.delay_hours, whatever
\* task_state says; the extensions of the model are whole hours, so the sum
\* is a whole number of hours
ApplyDurationExtension(row, delay, task_state) ==
    IF delay.phase = "FABRICATION"
    THEN [row EXCEPT !.Production_Duration = @ + delay.delay_hours \div HourParts]
    ELSE IF delay.phase = "TRANSPORT"
    THEN [row EXCEPT !.Transport_Duration = @ + delay.delay_hours \div HourParts]
    ELSE [row EXCEPT !.Installation_Duration = @ + delay.delay_hours \div HourParts]

\* a variant of _safe_compare_lb that lets the last delay win
SafeCompareLbLastWins(new_lb, current_lb) == TRUE

\* _safe_compare_lb
SafeCompareLb(new_lb, current_lb) ==
    IF current_lb = None THEN TRUE ELSE new_lb > current_lb

\* a variant of _apply_start_postponement that moves the planned start too
ApplyStartPostponementMovingStart(row, delay) ==
    LET delay_hours == IntHours(delay.delay_hours)
    IN IF delay.phase = "FABRICATION"
       THEN [row EXCEPT !.Earliest_Production_Start =
                            row.Production_Start + delay_hours,
                        !.Production_Start = @ + delay_hours]
       ELSE IF delay.phase = "TRANSPORT"
       THEN [row EXCEPT !.Earliest_Transport_Start =
                            row.Transport_Start + delay_hours,
                        !.Transport_Start = @ + delay_hours]
       ELSE [row EXCEPT !.Earliest_Installation_Start =
                            row.Installation_Start + delay_hours,
                        !.Installation_Start = @ + delay_hours]

\* _apply_start_postponement
ApplyStartPostponement(row, delay) ==
    LET delay_hours == IntHours(delay.delay_hours)
    IN IF delay.phase = "FABRICATION"
       THEN IF SafeCompareLb(row.Production_Start + delay_hours,
                             row.Earliest_Production_Start)
            THEN [row EXCEPT !.Earliest_Production_Start =
                                 row.Production_Start + delay_hours]
            ELSE row
       ELSE IF delay.phase = "TRANSPORT"
       THEN IF SafeCompareLb(row.Transport_Start + delay_hours,
                             row.Earliest_Transport_Start)
            THEN [row EXCEPT !.Earliest_Transport_Start =
                                 row.Transport_Start + delay_hours]
            ELSE row
       ELSE IF SafeCompareLb(row.Installation_Start + delay_hours,
                             row.Earliest_Installation_Start)
            THEN [row EXCEPT !.Earliest_Installation_Start =
                                 row.Installation_Start + delay_hours]
            ELSE row

\* apply_delays: the delays in the order they were loaded
RECURSIVE ApplyDelays(_, _, _)
ApplyDelays(df, ds, task_states) ==
    IF ds = << >> THEN df
    ELSE LET delay == Head(ds)
             next == IF delay.module_id \notin DOMAIN df THEN df
                     ELSE IF delay.delay_type = "DURATION_EXTENSION"
                     THEN [df EXCEPT ![delay.module_id] =
                               ApplyDurationExtension(@, delay,
                                   StateOfPhase(task_states[delay.module_id],
                                                delay.phase))]
                     ELSE IF delay.delay_type = "START_POSTPONEMENT"
                     THEN [df EXCEPT ![delay.module_id] =
                               ApplyStartPostponement(@, delay)]
                     ELSE df
         IN ApplyDelays(next, Tail(ds), task_states)

(* ------------------------ FixedConstraintsBuilder ---------------------- *)

\* actual_start = state.actual_start_time if state.actual_start_time else state.start_time
ActualStart(state) ==
    IF state.actual_start_time # None THEN state.actual_start_time
    ELSE state.start_time

\* a variant of the remaining duration that forgets the elapsed time
RemainingDurationNoElapsed(state, total_duration, current_time) ==
    Max(0, total_duration)

\* remaining duration of a phase in progress
RemainingDuration(state, total_duration, current_time) ==
    LET actual_start == ActualStart(state)
        elapsed == IF actual_start # None
                   THEN Max(0, current_time - actual_start) ELSE 0
    IN Max(0, total_duration - elapsed)

\* a variant of _handle_fabrication_phase whose COMPLETED branch reads the
\* delay-adjusted row
HandleFabricationPhaseAdjusted(state, row, original_row, current_time) ==
    IF state.status = "COMPLETED"
    THEN [fixed |-> state.start_time,
          duration |-> row.Production_Duration]
    ELSE IF state.status = "IN_PROGRESS"
    THEN [fixed |-> ActualStart(state),
          duration |-> RemainingDuration(state, row.Production_Duration,
                                         current_time)]
    ELSE [fixed |-> None, duration |-> row.Production_Duration]

\* _handle_fabrication_phase: the fixed start (None: no entry) and the duration
HandleFabricationPhase(state, row, original_row, current_time) ==
    IF state.status = "COMPLETED"
    THEN [fixed |-> state.start_time,
          duration |-> original_row.Production_Duration]
    ELSE IF state.status = "IN_PROGRESS"
    THEN [fixed |-> ActualStart(state),
          duration |-> RemainingDuration(state, row.Production_Duration,
                                         current_time)]
    ELSE [fixed |-> None, duration |-> row.Production_Duration]

\* _handle_transport_phase: the fixed arrival (None: no entry) and the duration
HandleTransportPhase(state, row, original_row, current_time) ==
    IF state.status = "COMPLETED"
    THEN [fixed |-> row.Arrival_Time,
          duration |-> original_row.Transport_Duration]
    ELSE IF state.status = "IN_PROGRESS"
    THEN [fixed |-> None,
          duration |-> RemainingDuration(state, row.Transport_Duration,
                                         current_time)]
    ELSE [fixed |-> None, duration |-> row.Transport_Duration]

\* _handle_installation_phase: the fixed start (None: no entry) and the duration
HandleInstallationPhase(state, row, original_row, current_time) ==
    IF state.status = "COMPLETED"
    THEN [fixed |-> state.start_time,
          duration |-> original_row.Installation_Duration]
    ELSE IF state.status = "IN_PROGRESS"
    THEN [fixed |-> ActualStart(state),
          duration |-> RemainingDuration(state, row.Installation_Duration,
                                         current_time)]
    ELSE [fixed |-> None, duration |-> row.Installation_Duration]

\* the lower bound build_fixed_constraints extracts for a phase (None: no entry)
\* a variant of the lower-bound extraction that looks at the column alone
EarliestEntryAnyState(state, fixed, val) ==
    IF val # None /\ val > 0 THEN val ELSE None

EarliestEntry(state, fixed, val) ==
    IF state.status = "NOT_STARTED" /\ fixed = None /\ val # None /\ val > 0
    THEN val ELSE None

\* a dict holding the entries that are not None
Dict(f) == [i \in {j \in DOMAIN f : f[j] # None} |-> f[i]]

\* build_fixed_constraints
BuildFixedConstraints(task_states, current_time, df, original_df) ==
    LET fab == [i \in Modules |->
                   HandleFabricationPhase(task_states[i].FABRICATION, df[i],
                                          original_df[i], current_time)]
        tra == [i \in Modules |->
                   HandleTransportPhase(task_states[i].TRANSPORT, df[i],
                                        original_df[i], current_time)]
        ins == [i \in Modules |->
                   HandleInstallationPhase(task_states[i].INSTALLATION, df[i],
                                           original_df[i], current_time)]
    IN [fixed_installation_starts |-> Dict([i \in Modules |-> ins[i].fixed]),
        fixed_production_starts |-> Dict([i \in Modules |-> fab[i].fixed]),
        fixed_arrival_times |-> Dict([i \in Modules |-> tra[i].fixed]),
        fixed_durations |->
            [i \in Modules |-> [FABRICATION |-> fab[i].duration,
                                TRANSPORT |-> tra[i].duration,
                                INSTALLATION |-> ins[i].duration]],
        earliest_production_starts |->
            Dict([i \in Modules |->
                EarliestEntry(task_states[i].FABRICATION, fab[i].fixed,
                              df[i].Earliest_Production_Start)]),
        earliest_transport_starts |->
            Dict([i \in Modules |->
                EarliestEntry(task_states[i].TRANSPORT, tra[i].fixed,
                              df[i].Earliest_Transport_Start)]),
        earliest_installation_starts |->
            Dict([i \in Modules |->
                EarliestEntry(task_states[i].INSTALLATION, ins[i].fixed,
                              df[i].Earliest_Installation_Start)])]

(* ----------------------- the Calculate button -------------------------- *)

\* a variant of step 4 that updates the durations of NOT_STARTED phases only
UpdatedDurationNotStarted(state, base_duration, new_duration) ==
    IF state.status = "NOT_STARTED" /\ new_duration # base_duration
    THEN new_duration ELSE base_duration

\* main, step 4: the duration handed to PrefabScheduler for one phase
UpdatedDuration(state, base_duration, new_duration) ==
    IF state.status # "COMPLETED" /\ new_duration # base_duration
    THEN new_duration ELSE base_duration

\* main, steps 4-7: the PrefabScheduler of a re-optimization
ReoptModel(base, modified, task_states, fc, current_time) ==
    [D |-> [i \in Modules |->
               UpdatedDuration(task_states[i].FABRICATION,
                               base[i].Production_Duration,
                               modified[i].Production_Duration)],
     L |-> [i \in Modules |->
               UpdatedDuration(task_states[i].TRANSPORT,
                               base[i].Transport_Duration,
                               modified[i].Transport_Duration)],
     d |-> [i \in Modules |->
               UpdatedDuration(task_states[i].INSTALLATION,
                               base[i].Installation_Duration,
                               modified[i].Installation_Duration)],
     E |-> project.E,
     fixed_installation_starts |-> fc.fixed_installation_starts,
     fixed_production_starts |-> fc.fixed_production_starts,
     fixed_arrival_times |-> fc.fixed_arrival_times,
     fixed_durations |-> fc.fixed_durations,
     reoptimize_from_time |-> current_time,
     earliest_production_starts |-> fc.earliest_production_starts,
     earliest_transport_starts |-> fc.earliest_transport_starts,
     earliest_installation_starts |-> fc.earliest_installation_starts]

\* the set S in increasing order of key(s)
RECURSIVE SortedBy(_, _)
SortedBy(S, key) ==
    IF S = {} THEN << >>
    ELSE LET lo == CHOOSE s \in S : \A t \in S : key[s] <= key[t]
         IN <<lo>> \o SortedBy(S \ {lo}, key)

\* load_delays_from_db: `if version_id:` adds the WHERE clause
load_delays_from_db(version_id) ==
    LET rows == IF version_id # None
                THEN {dl \in delays : dl.version_id = version_id}
                ELSE delays
    IN SortedBy(rows, [dl \in rows |-> dl.delay_id])

\* SELECT COUNT(*) ... WHERE version_id IS NULL
PendingDelays == {dl \in delays : dl.version_id = None}

\* SELECT MAX(version_number)
MaxVersionNumber ==
    IF versions = {} THEN None
    ELSE CHOOSE n \in {v.version_number : v \in versions} :
             \A v \in versions : v.version_number <= n

\* the rows of the latest version present in the solution table
HasBaseSolution == DOMAIN solutions # {}
BaseVersionOfRows ==
    CHOOSE v \in DOMAIN solutions : \A w \in DOMAIN solutions : w <= v
BaseSolution == solutions[BaseVersionOfRows].rows

\* the version whose number is the largest (None when there is none)
LatestVersionId ==
    IF versions = {} THEN None
    ELSE (CHOOSE v \in versions : v.version_number = MaxVersionNumber).version_id

NoObservation ==
    [op |-> "none", outcome |-> "none", now |-> None, current_time |-> None,
     base |-> NoDict, task_states |-> NoDict, modified |-> NoDict,
     model |-> NoDict, rows |-> NoDict, version_id |-> None,
     pre |-> NoDict]

Snapshot == [versions |-> versions, solutions |-> solutions, delays |-> delays]

(* ------------------------------ actions -------------------------------- *)

InitDb ==
    /\ versions = {}
    /\ nextVersionId = 1
    /\ solutions = << >>
    /\ delays = {}
    /\ nextDelayId = 1
    /\ applied = << >>
    /\ cycles = 0
    /\ deletes = 0
    /\ last = NoObservation

\* the short project, followed over several cycles of duration extensions
Init ==
    /\ project = ShortProject
    /\ budget = [max_cycles |-> MaxCycles, max_delays |-> MaxDelays,
                 max_deletes |-> MaxDeletes, max_hours |-> MaxHours,
                 delay_types |-> {"DURATION_EXTENSION"}]
    /\ InitDb

\* the short project, followed over several cycles of start postponements
InitPostpone ==
    /\ project = ShortProject
    /\ budget = [max_cycles |-> MaxCycles, max_delays |-> MaxDelays,
                 max_deletes |-> 0, max_hours |-> MaxPostponeHours,
                 delay_types |-> {"START_POSTPONEMENT"}]
    /\ InitDb

\* the long project and the two-module projects, followed over their first
\* re-optimization; a version is deleted in the long project only
InitCycle ==
    /\ project \in {LongProject} \cup TwoModuleProjects
    /\ budget = [max_cycles |-> FirstCyclePresses,
                 max_delays |-> FirstCycleDelays,
                 max_deletes |-> IF project = LongProject
                                 THEN MaxDeletes ELSE 0,
                 max_hours |-> MaxHours,
                 delay_types |-> DelayTypes]
    /\ InitDb

\* the solution and summary tables after the rows of version_id are replaced
WithRows(version_id, rows, finish) ==
    [v \in DOMAIN solutions \cup {version_id} |->
        IF v = version_id
        THEN [rows |-> rows, project_finish_time |-> finish]
        ELSE solutions[v]]

\* MainWindow.save_delay_to_db: a delay the user enters on a schedule row
save_delay_to_db(module_id, delay_type, phase, delay_hours) ==
    /\ nextDelayId <= budget.max_delays
    /\ delay_type \in budget.delay_types
    /\ HasBaseSolution
    /\ delays' = delays \cup
           {[delay_id |-> nextDelayId, module_id |-> module_id,
             delay_type |-> delay_type, phase |-> phase,
             delay_hours |-> delay_hours, version_id |-> None]}
    /\ nextDelayId' = nextDelayId + 1
    /\ applied' = [k \in DOMAIN applied \cup {nextDelayId} |->
                      IF k = nextDelayId THEN 0 ELSE applied[k]]
    /\ last' = [NoObservation EXCEPT !.op = "record", !.pre = Snapshot]
    /\ UNCHANGED <<project, budget, versions, nextVersionId, solutions, cycles,
                   deletes>>

\* on_calculate_clicked, no pending delay: the initial optimization
InitialOptimization ==
    /\ cycles < budget.max_cycles
    /\ PendingDelays = {}
    /\ \E res \in solve(InitialModel) :
        LET m == InitialModel
            existing == {v \in versions : v.version_number = 0}
            version_0_id == IF existing = {} THEN nextVersionId
                            ELSE (CHOOSE v \in existing : TRUE).version_id
            rows == IF res.status \in AcceptedStatus
                    THEN save_results_to_db(m, res, NoDict) ELSE NoDict
        IN /\ versions' = IF existing = {}
                          THEN versions \cup
                                 {[version_id |-> version_0_id,
                                   version_number |-> 0,
                                   base_version_id |-> None,
                                   reoptimize_from_time |-> None,
                                   delay_ids |-> {}]}
                          ELSE versions
           /\ nextVersionId' = IF existing = {} THEN nextVersionId + 1
                               ELSE nextVersionId
           /\ solutions' = IF res.status \in AcceptedStatus
                           THEN WithRows(version_0_id, rows, res.end)
                           ELSE solutions
           /\ last' = [NoObservation EXCEPT
                          !.op = "initial", !.outcome = res.status,
                          !.model = m, !.rows = rows,
                          !.version_id = version_0_id, !.pre = Snapshot]
    /\ cycles' = cycles + 1
    /\ UNCHANGED <<project, budget, delays, nextDelayId, applied, deletes>>

\* a variant of the "No Base Solution" return that comes after the version
\* record is inserted
NoBaseSolutionAfterInsert ==
    /\ last' = [NoObservation EXCEPT
                    !.op = "reopt", !.outcome = "NO_BASE_SOLUTION",
                    !.pre = Snapshot]
    /\ versions' = versions \cup
           {[version_id |-> nextVersionId,
             version_number |-> MaxVersionNumber + 1,
             base_version_id |-> LatestVersionId,
             reoptimize_from_time |-> None,
             delay_ids |-> {dl.delay_id : dl \in PendingDelays}]}
    /\ nextVersionId' = nextVersionId + 1
    /\ UNCHANGED <<project, budget, solutions, delays, nextDelayId, applied>>

\* on_calculate_clicked: "No Base Solution", the return before step 3
NoBaseSolution ==
    /\ last' = [NoObservation EXCEPT
                    !.op = "reopt", !.outcome = "NO_BASE_SOLUTION",
                    !.pre = Snapshot]
    /\ UNCHANGED <<project, budget, versions, nextVersionId, solutions, delays,
                   nextDelayId, applied>>

\* on_calculate_clicked, pending delays exist: one re-optimization cycle
Reoptimization ==
    /\ cycles < budget.max_cycles
    /\ PendingDelays # {}
    /\ cycles' = cycles + 1
    /\ UNCHANGED deletes
    /\ IF ~ HasBaseSolution
       THEN NoBaseSolution
       ELSE \E now \in NowChoices(MaxIdx(BaseSolution)) :
            LET loaded == load_delays_from_db(None)
                df_base_solution == BaseSolution
                n == MaxIdx(df_base_solution)
                current_time == CurrentTime(now, n)
                task_states == IdentifyAllStates(df_base_solution, now, n)
                modified == ApplyDelays(df_base_solution, loaded, task_states)
                fc == BuildFixedConstraints(task_states, current_time,
                                            modified, df_base_solution)
                m == ReoptModel(df_base_solution, modified, task_states,
                                fc, current_time)
                new_version_number == MaxVersionNumber + 1
                new_version_id == nextVersionId
            IN \E res \in solve(m) :
               LET rows == IF res.status \in AcceptedStatus
                           THEN save_results_to_db(m, res, modified)
                           ELSE NoDict
               IN /\ versions' = versions \cup
                        {[version_id |-> new_version_id,
                          version_number |-> new_version_number,
                          base_version_id |-> LatestVersionId,
                          reoptimize_from_time |-> current_time,
                          delay_ids |-> {dl.delay_id : dl \in PendingDelays}]}
                  /\ nextVersionId' = nextVersionId + 1
                  /\ delays' = {IF dl.version_id = None
                                THEN [dl EXCEPT !.version_id = new_version_id]
                                ELSE dl : dl \in delays}
                  /\ applied' = [k \in DOMAIN applied |->
                                    IF \E i \in 1..Len(loaded) :
                                           loaded[i].delay_id = k
                                    THEN applied[k] + 1 ELSE applied[k]]
                  /\ solutions' = IF res.status \in AcceptedStatus
                                  THEN WithRows(new_version_id, rows, res.end)
                                  ELSE solutions
                  /\ last' = [op |-> "reopt", outcome |-> res.status,
                              now |-> None, current_time |-> current_time,
                              base |-> df_base_solution,
                              task_states |-> task_states,
                              modified |-> modified, model |-> m,
                              rows |-> rows, version_id |-> new_version_id,
                              pre |-> Snapshot]
                  /\ UNCHANGED <<project, budget, nextDelayId>>

\* ScheduleDataManager.delete_version
delete_version(version_id) ==
    /\ deletes < budget.max_deletes
    /\ deletes' = deletes + 1
    /\ IF \E v \in versions : v.version_id = version_id
       THEN /\ versions' =
                 {[v EXCEPT !.base_version_id =
                       IF @ = version_id THEN None ELSE @] :
                  v \in {w \in versions : w.version_id # version_id}}
            /\ solutions' = [v \in DOMAIN solutions \ {version_id} |->
                                solutions[v]]
            /\ delays' = {dl \in delays : dl.version_id # version_id}
            /\ last' = [NoObservation EXCEPT
                           !.op = "delete", !.outcome = "True",
                           !.version_id = version_id, !.pre = Snapshot]
       ELSE /\ last' = [NoObservation EXCEPT
                           !.op = "delete", !.outcome = "False",
                           !.version_id = version_id, !.pre = Snapshot]
            /\ UNCHANGED <<versions, solutions, delays>>
    /\ UNCHANGED <<project, budget, nextVersionId, nextDelayId, applied, cycles>>

(* ------------------- the components called on their own ---------------- *)

\* the arguments a caller constructs a TaskStateIdentifier with: the current
\* datetime and its index as on_calculate_clicked computes them, or no
\* datetime and any index
IdentifierArgs(n) ==
    {[current_time |-> CurrentTime(now, n), current_datetime |-> now] :
        now \in NowChoices(n)}
    \cup {[current_time |-> ct, current_datetime |-> None] : ct \in 0..(n + 1)}

\* TaskStateIdentifier.__init__ on the latest solution
TaskStateIdentifierInit(args) ==
    /\ HasBaseSolution
    /\ last' = [op |-> "construct", outcome |-> "none", args |-> args,
                calls |-> 0,
                identifier |->
                    [solution_df |-> BaseSolution,
                     current_time |-> args.current_time,
                     working_calendar_slots |-> MaxIdx(BaseSolution),
                     current_datetime |->
                         ResolveDatetime(args.current_time,
                                         args.current_datetime,
                                         MaxIdx(BaseSolution))]]
    /\ UNCHANGED <<project, budget, versions, nextVersionId, solutions, delays,
                   nextDelayId, applied, cycles, deletes>>

\* a variant of identify_all_states that reads the clock at each call
identify_all_states_reading_clock ==
    /\ last.op \in {"construct", "identify"}
    /\ last.calls < MaxCalls
    /\ \E now \in NowChoices(last.identifier.working_calendar_slots) :
        last' = [op |-> "identify", outcome |-> "none", args |-> last.args,
                 calls |-> last.calls + 1,
                 identifier |-> last.identifier,
                 task_states |->
                     IdentifyAllStates(last.identifier.solution_df, now,
                         last.identifier.working_calendar_slots)]
    /\ UNCHANGED <<project, budget, versions, nextVersionId, solutions, delays,
                   nextDelayId, applied, cycles, deletes>>

\* TaskStateIdentifier.identify_all_states
identify_all_states ==
    /\ last.op \in {"construct", "identify"}
    /\ last.calls < MaxCalls
    /\ last' = [op |-> "identify", outcome |-> "none", args |-> last.args,
                calls |-> last.calls + 1,
                identifier |-> last.identifier,
                task_states |->
                    IdentifyAllStates(last.identifier.solution_df,
                        last.identifier.current_datetime,
                        last.identifier.working_calendar_slots)]
    /\ UNCHANGED <<project, budget, versions, nextVersionId, solutions, delays,
                   nextDelayId, applied, cycles, deletes>>

\* the delay magnitudes handed to apply_delays: a duration extension of whole
\* hours, a start postponement of any number of parts of an hour
ApplyChoices ==
    {[delay_type |-> "DURATION_EXTENSION", delay_hours |-> HourParts * h] :
        h \in 1..MaxApplyHours}
    \cup {[delay_type |-> "START_POSTPONEMENT", delay_hours |-> h] :
             h \in 1..(HourParts * MaxApplyHours)}

\* DelayApplier(solution_df, delays, task_states).apply_delays() with delays
\* on one module-phase, of a module of the solution or of an unknown one
apply_delays(module_id, phase, choices) ==
    /\ last.op = "identify"
    /\ LET delays_in == [k \in DOMAIN choices |->
                            [delay_id |-> k, module_id |-> module_id,
                             delay_type |-> choices[k].delay_type,
                             phase |-> phase,
                             delay_hours |-> choices[k].delay_hours,
                             version_id |-> None]]
       IN last' = [op |-> "apply", outcome |-> "none",
                   base |-> last.identifier.solution_df,
                   task_states |-> last.task_states,
                   delays_in |-> delays_in,
                   modified |-> ApplyDelays(last.identifier.solution_df,
                                            delays_in, last.task_states)]
    /\ UNCHANGED <<project, budget, versions, nextVersionId, solutions, delays,
                   nextDelayId, applied, cycles, deletes>>

\* the fixed-start dicts handed to set_fixed_constraints: empty, or one entry
\* for a module and a time index inside or just outside the horizon, or one
\* entry for an index that is no module
FixedDictChoices ==
    {NoDict} \cup {[j \in {i} |-> v] : i \in Modules, v \in 0..(T + 1)}
             \cup {[j \in {N + 1} |-> 1]}

\* set_fixed_constraints and build_model on the raw schedule of the project,
\* before anything else is done
build_model(fixed_installation_starts, fixed_production_starts, fixed_arrival_times, reoptimize_from_time) ==
    /\ last.op = "none"
    /\ LET m == [InitialModel EXCEPT
                    !.fixed_installation_starts = fixed_installation_starts,
                    !.fixed_production_starts = fixed_production_starts,
                    !.fixed_arrival_times = fixed_arrival_times,
                    !.reoptimize_from_time = reoptimize_from_time]
       IN last' = [op |-> "build", outcome |-> "none", model |-> m,
                   warnings |-> Warnings(m)]
    /\ UNCHANGED <<project, budget, versions, nextVersionId, solutions, delays,
                   nextDelayId, applied, cycles, deletes>>

\* a project optimized, and optimized once more, with no delay recorded
InitSolve ==
    /\ project \in SolveProjects
    /\ budget = [max_cycles |-> FirstCyclePresses, max_delays |-> 0,
                 max_deletes |-> 0,
                 max_hours |-> 0, delay_types |-> {}]
    /\ InitDb

\* the short project with one optimization
InitUnit ==
    /\ project = ShortProject
    /\ budget = [max_cycles |-> 1, max_delays |-> 0, max_deletes |-> 0,
                 max_hours |-> 0, delay_types |-> {}]
    /\ InitDb

NextUnit ==
    \/ InitialOptimization
    \/ /\ HasBaseSolution
       /\ \E args \in IdentifierArgs(MaxIdx(BaseSolution)) :
              TaskStateIdentifierInit(args)
    \/ identify_all_states
    \/ \E module_id \in 1..(N + 1), phase \in Phases, len \in 1..MaxApplied :
           \E choices \in [1..len -> ApplyChoices] :
               apply_delays(module_id, phase, choices)
    \/ \E fixed_installation_starts \in FixedDictChoices,
          fixed_production_starts \in FixedDictChoices,
          fixed_arrival_times \in FixedDictChoices,
          reoptimize_from_time \in {None} \cup Times :
           build_model(fixed_installation_starts, fixed_production_starts,
                       fixed_arrival_times, reoptimize_from_time)

Next ==
    \/ \E module_id \in Modules, delay_type \in DelayTypes, phase \in Phases,
          delay_hours \in {HourParts * h : h \in 1..budget.max_hours} :
           save_delay_to_db(module_id, delay_type, phase, delay_hours)
    \/ InitialOptimization
    \/ Reoptimization
    \/ \E version_id \in {v.version_id : v \in versions} \cup {nextVersionId} :
           delete_version(version_id)

\* recording delays and pressing Calculate, no version deleted
NextPostpone ==
    \/ \E module_id \in Modules, delay_type \in DelayTypes, phase \in Phases,
          delay_hours \in {HourParts * h : h \in 1..budget.max_hours} :
           save_delay_to_db(module_id, delay_type, phase, delay_hours)
    \/ InitialOptimization
    \/ Reoptimization

\* a press of Calculate with no delay pending
NextSolve == InitialOptimization

Spec == Init /\ [][Next]_vars
SpecSolve == InitSolve /\ [][NextSolve]_vars
SpecCycle == InitCycle /\ [][Next]_vars
SpecPostpone == InitPostpone /\ [][NextPostpone]_vars
SpecUnit == InitUnit /\ [][NextUnit]_vars

(* ------------------------------ properties ----------------------------- *)

\* the last handler was a re-optimization cycle that reached the solver
ReoptRan == last.op = "reopt" /\ last.outcome # "NO_BASE_SOLUTION"

\* the last handler was a re-optimization cycle whose solution was saved
ReoptSolved == ReoptRan /\ last.outcome \in AcceptedStatus

\* the status the last cycle gave a phase of module i
StatusOf(i, phase) == last.task_states[i][phase].status

\* C1 as stated: every delay record is loaded and applied by the Delay
\* Applier in at most one cycle, the one that links it to its version; a
\* record already linked is never applied again by a later cycle.
C1_AppliedOnce ==
    \A k \in DOMAIN applied : applied[k] <= 1

\* C2 as stated: in a schedule solved with reoptimize_from_time = r > 1,
\* every phase without a fixed start begins at or after r: production start,
\* transport start (arrival minus transport duration) and installation start.
C2_NoUnfixedStartBeforeR ==
    (ReoptSolved /\ last.model.reoptimize_from_time > 1) =>
        \A i \in Modules :
            LET r == last.model.reoptimize_from_time
                row == last.rows[i]
            IN /\ i \notin DOMAIN last.model.fixed_production_starts
                    => row.Production_Start >= r
               /\ i \notin DOMAIN last.model.fixed_arrival_times
                    => row.Transport_Start >= r
               /\ i \notin DOMAIN last.model.fixed_installation_starts
                    => row.Installation_Start >= r

\* C3 as stated: every phase classified COMPLETED or IN_PROGRESS at the
\* reference time keeps, in the re-optimized schedule, the start it had in
\* the prior schedule.
C3_StartedWorkFrozen ==
    ReoptSolved =>
        \A i \in Modules :
            LET started(phase) == StatusOf(i, phase) \in {"COMPLETED", "IN_PROGRESS"}
            IN /\ started("FABRICATION") =>
                    last.rows[i].Production_Start = last.base[i].Production_Start
               /\ started("TRANSPORT") =>
                    last.rows[i].Transport_Start = last.base[i].Transport_Start
               /\ started("INSTALLATION") =>
                    last.rows[i].Installation_Start = last.base[i].Installation_Start

\* the modules whose phase, starting at start and lasting duration, runs at t
Running(rows, start, duration, t) ==
    {i \in DOMAIN rows :
        rows[i][start] <= t /\ t < rows[i][start] + rows[i][duration]}

\* C4: in every saved schedule, initial or re-optimized, at every time index
\* the modules in installation number at most the crew count and the modules
\* in production at most the machine count.
C4_CapacityRespected ==
    \A v \in DOMAIN solutions : \A t \in Times :
        LET rows == solutions[v].rows
        IN /\ Cardinality(Running(rows, "Installation_Start",
                                  "Installation_Duration", t)) <= C_install
           /\ Cardinality(Running(rows, "Production_Start",
                                  "Production_Duration", t)) <= M_machine

\* C4's case: two modules without a precedence edge and one crew, re-optimized
\* with an installation lengthened by a delay
C4_Witness ==
    /\ ReoptSolved
    /\ N = 2 /\ project.E = {} /\ C_install = 1
    /\ \E i \in Modules :
          last.rows[i].Installation_Duration > last.base[i].Installation_Duration

\* C5: in every saved schedule, for every precedence edge (i, j) the
\* installation of j starts no earlier than the installation start of i plus
\* the installation duration of i, also when a delay extended that duration.
C5_PrecedenceRespected ==
    \A v \in DOMAIN solutions : \A e \in project.E :
        LET rows == solutions[v].rows
        IN rows[e[2]].Installation_Start >=
               rows[e[1]].Installation_Start + rows[e[1]].Installation_Duration

\* C5's case: a re-optimized schedule in which the predecessor's installation
\* was extended by a delay
C5_Witness ==
    /\ ReoptSolved
    /\ \E e \in project.E :
          last.rows[e[1]].Installation_Duration >
              last.base[e[1]].Installation_Duration

\* C6: for every phase classified COMPLETED, the duration emitted by
\* build_fixed_constraints is the phase's duration in the base solution,
\* whatever DURATION_EXTENSION delays target the phase.
C6_CompletedKeepsOriginalDuration ==
    ReoptRan =>
        \A i \in Modules :
            LET emitted == last.model.fixed_durations[i]
            IN /\ StatusOf(i, "FABRICATION") = "COMPLETED" =>
                    emitted.FABRICATION = last.base[i].Production_Duration
               /\ StatusOf(i, "TRANSPORT") = "COMPLETED" =>
                    emitted.TRANSPORT = last.base[i].Transport_Duration
               /\ StatusOf(i, "INSTALLATION") = "COMPLETED" =>
                    emitted.INSTALLATION = last.base[i].Installation_Duration

\* C6's case: a completed fabrication that two applications of
\* DURATION_EXTENSION target
C6_Witness ==
    /\ ReoptRan
    /\ \E i \in Modules :
          /\ StatusOf(i, "FABRICATION") = "COMPLETED"
          /\ last.modified[i].Production_Duration >=
                 last.base[i].Production_Duration + 2

\* max(0, D' - max(0, r - s))
RemainingAt(total, r, start) == Max(0, total - Max(0, r - start))

\* C7: for every phase classified IN_PROGRESS with start s, delay-adjusted
\* total duration D' and reference time index r, build_fixed_constraints
\* emits the remaining duration max(0, D' - max(0, r - s)).
C7_RemainingDurationEmitted ==
    ReoptRan =>
        \A i \in Modules :
            LET emitted == last.model.fixed_durations[i]
                r == last.current_time
            IN /\ StatusOf(i, "FABRICATION") = "IN_PROGRESS" =>
                    emitted.FABRICATION =
                        RemainingAt(last.modified[i].Production_Duration, r,
                                    last.base[i].Production_Start)
               /\ StatusOf(i, "TRANSPORT") = "IN_PROGRESS" =>
                    emitted.TRANSPORT =
                        RemainingAt(last.modified[i].Transport_Duration, r,
                                    last.base[i].Transport_Start)
               /\ StatusOf(i, "INSTALLATION") = "IN_PROGRESS" =>
                    emitted.INSTALLATION =
                        RemainingAt(last.modified[i].Installation_Duration, r,
                                    last.base[i].Installation_Start)

\* C7's case: a fabrication in progress for at least one hour whose duration
\* a delay extended
C7_Witness ==
    /\ ReoptRan
    /\ \E i \in Modules :
          /\ StatusOf(i, "FABRICATION") = "IN_PROGRESS"
          /\ last.current_time > last.base[i].Production_Start
          /\ last.modified[i].Production_Duration >
                 last.base[i].Production_Duration

C9_FailedCyclePersistsNothing ==
    (ReoptRan /\ last.outcome \notin AcceptedStatus) =>
        /\ solutions = last.pre.solutions
        /\ versions = last.pre.versions
        /\ delays = last.pre.delays

\* C10: a press of Calculate with pending delays and no rows in the solution
\* table aborts before the solver: no model is built, no version record is
\* created, no solution is written and the delays stay pending.
C10_AbortWithoutBaseSolution ==
    [][(PendingDelays # {} /\ ~ HasBaseSolution /\ cycles' = cycles + 1) =>
          /\ last'.outcome = "NO_BASE_SOLUTION"
          /\ last'.model = NoDict
          /\ versions' = versions
          /\ nextVersionId' = nextVersionId
          /\ solutions' = solutions
          /\ delays' = delays]_vars

\* C10's case: the cycle aborted for want of a base solution, delays pending
C10_Witness ==
    /\ last.op = "reopt"
    /\ last.outcome = "NO_BASE_SOLUTION"
    /\ PendingDelays # {}

\* the columns of a phase in a solution row
StartColumn(phase) ==
    IF phase = "FABRICATION" THEN "Production_Start"
    ELSE IF phase = "TRANSPORT" THEN "Transport_Start"
    ELSE "Installation_Start"

DurationColumn(phase) ==
    IF phase = "FABRICATION" THEN "Production_Duration"
    ELSE IF phase = "TRANSPORT" THEN "Transport_Duration"
    ELSE "Installation_Duration"

EarliestColumn(phase) ==
    IF phase = "FABRICATION" THEN "Earliest_Production_Start"
    ELSE IF phase = "TRANSPORT" THEN "Earliest_Transport_Start"
    ELSE "Earliest_Installation_Start"

\* the last handler was an apply_delays call with delays on a module of the
\* solution
Applied ==
    /\ last.op = "apply"
    /\ last.delays_in[1].module_id \in DOMAIN last.base

\* the last handler was an apply_delays call with two delays of one type
AppliedTwo(delay_type) ==
    /\ Applied
    /\ Len(last.delays_in) = 2
    /\ \A k \in 1..2 : last.delays_in[k].delay_type = delay_type

\* the lower bound of the delayed module-phase after the first k delays
BoundAfter(k) ==
    LET ds == last.delays_in
    IN ApplyDelays(last.base, SubSeq(ds, 1, k), last.task_states)
           [ds[1].module_id][EarliestColumn(ds[1].phase)]

\* C11, amended: two START_POSTPONEMENT delays of h1 and h2 hours on a
\* module-phase with planned start s and no earlier bound leave the lower
\* bound s + max(int(h1), int(h2)), in either order, where int cuts off the
\* fraction of an hour; the bound is never s + h1 + h2, and a further delay
\* never lowers the bound.
C11_PostponementKeepsMaximum ==
    Applied =>
        LET ds == last.delays_in
            row == last.base[ds[1].module_id]
            s == row[StartColumn(ds[1].phase)]
            lb == last.modified[ds[1].module_id][EarliestColumn(ds[1].phase)]
        IN /\ row[EarliestColumn(ds[1].phase)] = None
           /\ AppliedTwo("START_POSTPONEMENT") =>
                 /\ lb = s + Max(IntHours(ds[1].delay_hours),
                                 IntHours(ds[2].delay_hours))
                 /\ HourParts * lb #
                        HourParts * s + ds[1].delay_hours + ds[2].delay_hours
           /\ \A k \in 1..(Len(ds) - 1) :
                 BoundAfter(k) # None =>
                     /\ BoundAfter(k + 1) # None
                     /\ BoundAfter(k + 1) >= BoundAfter(k)
           /\ lb = BoundAfter(Len(ds))

\* C11 as stated: two START_POSTPONEMENT delays of h1 and h2 hours on a
\* module-phase with planned start s leave the lower bound s + max(h1, h2).
C11_PostponementMaxOfHours ==
    AppliedTwo("START_POSTPONEMENT") =>
        LET ds == last.delays_in
            s == last.base[ds[1].module_id][StartColumn(ds[1].phase)]
            lb == last.modified[ds[1].module_id][EarliestColumn(ds[1].phase)]
        IN HourParts * lb =
               HourParts * s + Max(ds[1].delay_hours, ds[2].delay_hours)

\* C11's case: the second postponement is the shorter one, by a whole hour
\* or more
C11_Witness ==
    /\ AppliedTwo("START_POSTPONEMENT")
    /\ IntHours(last.delays_in[1].delay_hours) >
           IntHours(last.delays_in[2].delay_hours)
    /\ last.delays_in[1].delay_hours % HourParts # 0

\* C12: two DURATION_EXTENSION delays of h1 and h2 hours on one module-phase
\* in one apply_delays call make the phase's duration in the adjusted
\* solution h1 + h2 longer than in the prior solution, whatever the task
\* state of the phase and the order of the delays.
C12_ExtensionsAdd ==
    AppliedTwo("DURATION_EXTENSION") =>
        LET ds == last.delays_in
            column == DurationColumn(ds[1].phase)
        IN HourParts * (last.modified[ds[1].module_id][column]
                          - last.base[ds[1].module_id][column])
               = ds[1].delay_hours + ds[2].delay_hours

\* C12's case: two extensions of different length on a COMPLETED phase
C12_Witness ==
    /\ AppliedTwo("DURATION_EXTENSION")
    /\ last.delays_in[1].delay_hours # last.delays_in[2].delay_hours
    /\ last.task_states[last.delays_in[1].module_id]
           [last.delays_in[1].phase].status = "COMPLETED"

\* the phases with the fixed-start dict, the lower-bound dict and the
\* Earliest_* column of each
PhaseDicts ==
    {[phase |-> "FABRICATION", fixed |-> "fixed_production_starts",
      earliest |-> "earliest_production_starts",
      column |-> "Earliest_Production_Start"],
     [phase |-> "TRANSPORT", fixed |-> "fixed_arrival_times",
      earliest |-> "earliest_transport_starts",
      column |-> "Earliest_Transport_Start"],
     [phase |-> "INSTALLATION", fixed |-> "fixed_installation_starts",
      earliest |-> "earliest_installation_starts",
      column |-> "Earliest_Installation_Start"]}

\* C13: in the constraint set of every cycle and the model built from it no
\* module-phase has both a fixed start and an earliest-start lower bound; a
\* fixed start belongs to a COMPLETED or IN_PROGRESS phase, a lower bound to
\* a NOT_STARTED phase.
C13_FixedOrLowerBound ==
    ReoptRan =>
        \A i \in Modules : \A ph \in PhaseDicts :
            /\ i \in DOMAIN last.model[ph.fixed] =>
                  /\ StatusOf(i, ph.phase) \in {"COMPLETED", "IN_PROGRESS"}
                  /\ i \notin DOMAIN last.model[ph.earliest]
            /\ i \in DOMAIN last.model[ph.earliest] =>
                  StatusOf(i, ph.phase) = "NOT_STARTED"

\* C13's case: a start postponement was recorded on a phase that the cycle
\* finds started, so the phase has an Earliest_* value and a fixed start
C13_Witness ==
    /\ ReoptRan
    /\ \E i \in Modules : \E ph \in PhaseDicts :
          /\ last.modified[i][ph.column] > 0
          /\ i \in DOMAIN last.model[ph.fixed]

\* C14: in a cycle, where the task states and the fixed constraints are built
\* for the same reference time index r, every fixed production start, fixed
\* arrival time and fixed installation start is at most r.
C14_FixedStartsNotAfterR ==
    ReoptRan =>
        \A ph \in PhaseDicts : \A i \in DOMAIN last.model[ph.fixed] :
            last.model[ph.fixed][i] <= last.current_time

\* C14's case: a phase that starts exactly at the reference time index is
\* found started and gets a fixed start
C14_Witness ==
    /\ ReoptRan
    /\ \E ph \in PhaseDicts : \E i \in DOMAIN last.model[ph.fixed] :
          last.model[ph.fixed][i] = last.current_time

\* the planned finish index of a phase in a solution row
PlannedFinish(row, phase) ==
    IF phase = "TRANSPORT" THEN row.Arrival_Time
    ELSE row[StartColumn(phase)] + row[DurationColumn(phase)] - 1

\* the status the rule of C15 gives a phase at the reference datetime
ExpectedStatus(row, phase, reference) ==
    IF SlotTime(PlannedFinish(row, phase)) < reference THEN "COMPLETED"
    ELSE IF SlotTime(row[StartColumn(phase)]) <= reference THEN "IN_PROGRESS"
    ELSE "NOT_STARTED"

\* the last handler was an identify_all_states call
Identified == last.op = "identify"

Unresolvable ==
    /\ last.args.current_datetime = None
    /\ \/ last.args.current_time <= 0
       \/ last.args.current_time > last.identifier.working_calendar_slots

\* C16: when the reference index is <= 0 or beyond the calendar and no
\* datetime is supplied, identify_states returns every phase of every module
\* as NOT_STARTED with progress 0 and no actual start, and the constraint set
\* built from these states fixes no start.
C16_UnresolvedAllNotStarted ==
    (Identified /\ Unresolvable) =>
        /\ \A i \in Modules : \A phase \in Phases :
              /\ last.task_states[i][phase].status = "NOT_STARTED"
              /\ last.task_states[i][phase].progress = Fraction(0, 1)
              /\ last.task_states[i][phase].actual_start_time = None
        /\ LET fc == BuildFixedConstraints(last.task_states,
                         last.args.current_time,
                         last.identifier.solution_df,
                         last.identifier.solution_df)
           IN /\ fc.fixed_production_starts = NoDict
              /\ fc.fixed_arrival_times = NoDict
              /\ fc.fixed_installation_starts = NoDict

\* C16's case: an index beyond the calendar and no datetime
C16_Witness ==
    /\ Identified /\ Unresolvable
    /\ last.args.current_time > last.identifier.working_calendar_slots

Pinned(s, e) ==
    /\ e.i \in Modules
    /\ IF e.family = "installation" THEN s.a[e.i].x = e.value
       ELSE IF e.family = "production" THEN e.value \in s.a[e.i].qs
       ELSE s.a[e.i].p = e.value

\* the entry is one of a module, at a time index of the horizon
InHorizon(e) == e.i \in Modules /\ e.value \in Times

C19_DeleteKeepsDelays ==
    last.op = "delete" =>
        IF \E v \in last.pre.versions : v.version_id = last.version_id
        THEN /\ last.outcome = "True"
             /\ ~ \E v \in versions : v.version_id = last.version_id
             /\ last.version_id \notin DOMAIN solutions
             /\ delays = last.pre.delays
        ELSE /\ last.outcome = "False"
             /\ versions = last.pre.versions
             /\ solutions = last.pre.solutions
             /\ delays = last.pre.delays

\* the last handler built a model and called the solver
ModelBuilt == last.op = "initial" \/ ReoptRan

\* C20 as stated: in every assignment that satisfies the built model each
\* module has exactly one production start over 1..T (as it has one
\* installation start and one arrival), and a fixed production start inside
\* the horizon leaves no other production start for its module.
C20_ExactlyOneStart ==
    ModelBuilt =>
        \A s \in Feasible(last.model) : \A i \in Modules :
            /\ Cardinality(s.a[i].qs) = 1
            /\ (i \in DOMAIN last.model.fixed_production_starts
                  /\ last.model.fixed_production_starts[i] \in Times)
                 => s.a[i].qs = {last.model.fixed_production_starts[i]}

\* C21 as stated: in every solved re-optimized schedule each NOT_STARTED
\* phase that carries an earliest-start lower bound b starts at or after b,
\* whatever b is: production start, transport start (arrival minus transport
\* duration) and installation start alike.
C21_LowerBoundsRespected ==
    ReoptSolved =>
        \A i \in Modules : \A ph \in PhaseDicts :
            (StatusOf(i, ph.phase) = "NOT_STARTED"
               /\ i \in DOMAIN last.model[ph.earliest])
                => last.rows[i][StartColumn(ph.phase)]
                       >= last.model[ph.earliest][i]

\* C22 as stated: for every phase classified IN_PROGRESS, fabrication,
\* transport and installation alike, build_fixed_constraints emits a fixed
\* entry for the phase: a fixed production start, a fixed arrival time, a
\* fixed installation start.
C22_InProgressFixed ==
    ReoptRan =>
        \A i \in Modules : \A ph \in PhaseDicts :
            StatusOf(i, ph.phase) = "IN_PROGRESS"
                => i \in DOMAIN last.model[ph.fixed]

\* the last handler saved the schedule of a model it solved
Solved == ModelBuilt /\ last.outcome \in AcceptedStatus

\* C23 as stated: in every solved schedule the dummy start is at
\* max(1, reoptimize_from_time), every root module starts installation no
\* earlier than the dummy start, and every leaf module's installation start
\* plus duration is no later than the dummy end, the reported project finish
\* time.
C23_SentinelOrdering ==
    Solved =>
        /\ DummyStart(last.model) = Max(1, last.model.reoptimize_from_time)
        /\ \A i \in Roots(last.model.E) :
              last.rows[i].Installation_Start >= DummyStart(last.model)
        /\ \A i \in Leaves(last.model.E) :
              last.rows[i].Installation_Start + last.rows[i].Installation_Duration
                  <= solutions[last.version_id].project_finish_time

\* C24, amended: in every solved schedule a module arrives at time t only if
\* its production started at least production duration + transport duration
\* time units before t, so that no module arrives at a time index
\* t <= production duration + transport duration.
C24_ArrivalAfterLeadTime ==
    \A v \in DOMAIN solutions : \A i \in Modules :
        LET row == solutions[v].rows[i]
        IN /\ row.Production_Start + row.Production_Duration
                  + row.Transport_Duration <= row.Arrival_Time
           /\ row.Arrival_Time >
                  row.Production_Duration + row.Transport_Duration

\* C24 as stated: a module arrives at time t only if its production finished
\* at least production duration + transport duration time units before t.
C24_ArrivalAfterFinishPlusLeadTime ==
    \A v \in DOMAIN solutions : \A i \in Modules :
        LET row == solutions[v].rows[i]
        IN PlannedFinish(row, "FABRICATION") + row.Production_Duration
               + row.Transport_Duration <= row.Arrival_Time

\* C24's case: a re-optimized schedule in which a module with two hours of
\* production arrives as early as its production start allows
C24_Witness ==
    /\ ReoptSolved
    /\ \E i \in Modules :
          /\ last.rows[i].Production_Duration = 2
          /\ last.rows[i].Arrival_Time =
                 last.rows[i].Production_Start + last.rows[i].Production_Duration
                     + last.rows[i].Transport_Duration

\* the arrival and the installation start of each module in saved rows
StartsOf(rows) ==
    [i \in DOMAIN rows |->
        [x |-> rows[i].Installation_Start, p |-> rows[i].Arrival_Time]]

\* C25: in every solved schedule each module arrives no later than its
\* installation starts, its site inventory is 1 at the time indices t with
\* arrival <= t < installation start and 0 at every other, and at every time
\* index the site inventory summed over the modules is at most the site
\* storage capacity.
C25_SiteInventory ==
    \A v \in DOMAIN solutions :
        LET rows == solutions[v].rows
            a == StartsOf(rows)
        IN /\ \A i \in Modules :
                 /\ rows[i].Arrival_Time <= rows[i].Installation_Start
                 /\ \A t \in Times :
                       SiteInv(a, i, t) =
                           IF rows[i].Arrival_Time <= t
                                /\ t < rows[i].Installation_Start
                           THEN 1 ELSE 0
           /\ \A t \in Times :
                 SumOver(Modules, [i \in Modules |-> SiteInv(a, i, t)])
                     <= S_site

\* C25's case: a schedule of two modules, one of them stored on site before
\* its installation starts
C25_Witness ==
    /\ Solved /\ N = 2
    /\ \E i \in Modules :
          last.rows[i].Arrival_Time < last.rows[i].Installation_Start

\* the modules of a solved model whose production has finished by s and whose
\* transport has not departed yet
WaitingInFactory(m, a, s) ==
    {i \in Modules :
        /\ get_solution_dict(a)[i].q + m.D[i] <= s
        /\ s < a[i].p - m.L[i]}

\* C26 as stated: in every solved schedule the factory inventory F[1] is 0,
\* F[s] is the number of modules whose production has finished by s and
\* whose transport has not departed yet, and F[s] never exceeds the factory
\* buffer capacity.
C26_FactoryInventory ==
    ModelBuilt =>
        \A sol \in Feasible(last.model) :
            /\ FacInv(last.model, sol.a, 1) = 0
            /\ \A s \in Times :
                  /\ FacInv(last.model, sol.a, s) =
                         Cardinality(WaitingInFactory(last.model, sol.a, s))
                  /\ FacInv(last.model, sol.a, s) <= S_fac

\* the columns of a solution row
Columns == DOMAIN save_results_to_db(InitialModel,
               [a |-> [i \in Modules |-> [x |-> 1, p |-> 1, q |-> 1]]], NoDict)[1]

\* C27: apply_delays leaves the prior solution as it was, and the adjusted
\* solution differs from it only in the earliest-start lower bound of a
\* module-phase a START_POSTPONEMENT names and in the duration of a
\* module-phase a DURATION_EXTENSION names: no planned start and no arrival
\* time changes, and a delay naming an unknown module changes nothing.
C27_OnlyBoundAndDurationChange ==
    last.op = "apply" =>
        /\ last.base = BaseSolution
        /\ DOMAIN last.modified = DOMAIN last.base
        /\ \A i \in DOMAIN last.base :
              /\ DOMAIN last.modified[i] = Columns
              /\ \A column \in Columns :
                    last.modified[i][column] # last.base[i][column] =>
                        \E k \in DOMAIN last.delays_in :
                            LET delay == last.delays_in[k]
                            IN /\ delay.module_id = i
                               /\ column =
                                    IF delay.delay_type = "START_POSTPONEMENT"
                                    THEN EarliestColumn(delay.phase)
                                    ELSE DurationColumn(delay.phase)

\* C27's case: a start postponement and a duration extension on one phase
\* of a module of the solution
C27_Witness ==
    /\ Applied
    /\ \E k \in DOMAIN last.delays_in :
          last.delays_in[k].delay_type = "START_POSTPONEMENT"
    /\ \E k \in DOMAIN last.delays_in :
          last.delays_in[k].delay_type = "DURATION_EXTENSION"
    /\ last.modified # last.base

\* how far a status is on the way from NOT_STARTED to COMPLETED
Rank(status) ==
    IF status = "NOT_STARTED" THEN 0
    ELSE IF status = "IN_PROGRESS" THEN 1 ELSE 2

\* the task states of the identified solution at a reference datetime r2
StatesAt(r2) ==
    IdentifyAllStates(last.identifier.solution_df, r2,
                      last.identifier.working_calendar_slots)

\* the reference datetimes at or after the one of the last identification
LaterReferences ==
    {r2 \in NowChoices(last.identifier.working_calendar_slots) :
        r2 >= last.identifier.current_datetime}

\* C28: for a fixed prior solution and calendar the status of a module-phase
\* never goes back as the reference time advances: a phase IN_PROGRESS at r1
\* is IN_PROGRESS or COMPLETED at every r2 >= r1, a phase COMPLETED at r1 is
\* COMPLETED at every r2 >= r1.
C28_StatusNeverRegresses ==
    (Identified /\ last.identifier.current_datetime # None) =>
        \A r2 \in LaterReferences : \A i \in Modules : \A phase \in Phases :
            Rank(StatesAt(r2)[i][phase].status)
                >= Rank(last.task_states[i][phase].status)

\* C28's case: a phase IN_PROGRESS for more than one reference datetime and
\* COMPLETED at a later one
C28_Witness ==
    /\ Identified /\ last.identifier.current_datetime # None
    /\ \E i \in Modules : \E phase \in Phases :
          /\ last.task_states[i][phase].status = "IN_PROGRESS"
          /\ \E r2 \in LaterReferences :
                /\ r2 > last.identifier.current_datetime
                /\ StatesAt(r2)[i][phase].status = "IN_PROGRESS"
          /\ \E r2 \in LaterReferences :
                StatesAt(r2)[i][phase].status = "COMPLETED"

\* the rows a cycle reads as its prior solution from the tables as they were
\* before the cycle
RowsReadBack ==
    LET saved == last.pre.solutions
        latest == CHOOSE v \in DOMAIN saved : \A w \in DOMAIN saved : w <= v
    IN saved[latest].rows

\* C29 as stated: over successive successful re-optimization cycles the
\* earliest-start lower bound of a module-phase is saved with the cycle's
\* schedule, is read back with the next cycle's prior solution, never
\* disappears, is replaced only by a larger value, and constrains the phase
\* for as long as it is NOT_STARTED.
C29_BoundsPersist ==
    ReoptSolved =>
        /\ last.base = RowsReadBack
        /\ solutions[last.version_id].rows = last.rows
        /\ \A i \in Modules : \A ph \in PhaseDicts :
              LET before == last.base[i][ph.column]
                  after == last.rows[i][ph.column]
              IN /\ after = last.modified[i][ph.column]
                 /\ before # None => (after # None /\ after >= before)
                 /\ (after # None /\ StatusOf(i, ph.phase) = "NOT_STARTED")
                       => last.rows[i][StartColumn(ph.phase)] >= after

\* the version whose rows a cycle reads as its prior solution from the tables
\* as they were before the cycle
VersionReadBack ==
    CHOOSE v \in DOMAIN last.pre.solutions :
        \A w \in DOMAIN last.pre.solutions : w <= v

\* the largest version number before the cycle
NumberBefore ==
    IF last.pre.versions = {} THEN 0
    ELSE CHOOSE n \in {v.version_number : v \in last.pre.versions} :
             \A v \in last.pre.versions : v.version_number <= n

\* C30 as stated: whatever initial optimizations, successful and failed
\* cycles and deletions came before, the version record a re-optimization
\* cycle creates has a version number one greater than the largest existing
\* one and a base_version_id that names the version whose solution rows the
\* cycle used as its prior solution.
C30_VersionLineage ==
    ReoptRan =>
        \E rec \in versions :
            /\ rec.version_id = last.version_id
            /\ rec \notin last.pre.versions
            /\ rec.version_number = NumberBefore + 1
            /\ rec.base_version_id = VersionReadBack
====
